---- MODULE Spec2Model ----
(***************************************************************************)
(* Model of notebooks/"DepMap Analysis - old.ipynb": a linear sequence of  *)
(* notebook cells (loader, correlation cache, pair filter, gene lists,     *)
(* metabolic subset and its own pair filter) run in order in one kernel,   *)
(* over files that outlive the kernel.                                     *)
(*                                                                         *)
(* Representation.                                                         *)
(*  - A Python name of the kernel is a sequence: <<>> while the name is    *)
(*    unbound, <<v>> once a cell has assigned v to it.  A file is <<>>     *)
(*    while absent and <<content>> when present.                           *)
(*  - A string is a sequence of one-character strings, so that strip()    *)
(*    and upper() are computed and not assumed.                            *)
(*  - A DataFrame is [index, columns, values] with values[r][c].           *)
(*  - A Series with a two-level index (the result of unstack) is a         *)
(*    sequence of entries [i, j, v]: level-0 label, level-1 label, value.  *)
(*  - A float is an integer count of tenths (One = 1.0, Threshold = 0.5),  *)
(*    NaN is a value outside [-One, One].  Only the comparisons the code   *)
(*    makes (!= 1.0, abs() > 0.5, ordering) are read from these values.    *)
(***************************************************************************)
EXTENDS Integers, Sequences, FiniteSets, TLC

VARIABLES
    pc,                 \* the cell that runs next, or "done" / "aborted"
    run,                \* number of the current run (a fresh kernel each)
    csv,                \* file portal-Avana-2018-06-08.csv
    h5,                 \* file correlations.h5 (an HDF store: key -> node)
    prior_genes_txt,    \* file prior_genes.txt
    metabolic_genes_txt,\* file metabolic_genes.txt
    written,            \* history: the frame last passed to to_hdf
    data, recalculate, corr,
    corr_list, large_corr, sort_corrs,
    prior_genes, metab_genes,
    prior_corrs, metab_data, metab_corr,
    mcorr_list, mlarge_corr, msort_corrs

files  == <<csv, h5, prior_genes_txt, metabolic_genes_txt>>
kernel == <<data, recalculate, corr, corr_list, large_corr, sort_corrs,
            prior_genes, metab_genes, prior_corrs, metab_data, metab_corr,
            mcorr_list, mlarge_corr, msort_corrs>>
vars   == <<pc, run, files, written, kernel>>

\* ------------------------------------------------------------------ bounds
MaxRuns == 2

\* ------------------------------------------------------- names and files
Unbound == <<>>
Bound(v) == <<v>>
IsBound(n) == n # <<>>

Absent == <<>>
Present(content) == <<content>>
Exists(f) == f # <<>>

\* ------------------------------------------------------------- floats
One == 10
Threshold == 5
NaN == One + 1

\* v != w on floats: NaN differs from everything
FloatNe(v, w) == v = NaN \/ w = NaN \/ v # w

\* v > w on floats: every comparison with NaN is False
FloatGt(v, w) == v # NaN /\ w # NaN /\ v > w

FloatAbs(v) == IF v = NaN THEN NaN ELSE IF v < 0 THEN 0 - v ELSE v

\* ------------------------------------------------------------- strings
IsSpace(c) == c \in {" ", "\n", "\t"}

UpperChar(c) ==
    CASE c = "a" -> "A"
      [] c = "b" -> "B"
      [] c = "c" -> "C"
      [] c = "d" -> "D"
      [] OTHER   -> c

Upper(s) == [k \in 1..Len(s) |-> UpperChar(s[k])]

RECURSIVE LStrip(_)
LStrip(s) == IF s # <<>> /\ IsSpace(Head(s)) THEN LStrip(Tail(s)) ELSE s

RECURSIVE RStrip(_)
RStrip(s) ==
    IF s # <<>> /\ IsSpace(s[Len(s)]) THEN RStrip(SubSeq(s, 1, Len(s) - 1)) ELSE s

Strip(s) == RStrip(LStrip(s))

\* f.readlines(): the text cut after every newline, newlines kept
RECURSIVE ReadLinesFrom(_, _)
ReadLinesFrom(text, cur) ==
    IF text = <<>> THEN (IF cur = <<>> THEN <<>> ELSE <<cur>>)
    ELSE IF Head(text) = "\n"
         THEN <<Append(cur, "\n")>> \o ReadLinesFrom(Tail(text), <<>>)
         ELSE ReadLinesFrom(Tail(text), Append(cur, Head(text)))

ReadLines(text) == ReadLinesFrom(text, <<>>)

\* ------------------------------------------------------------- frames
Frame(idx, cols, vals) == [index |-> idx, columns |-> cols, values |-> vals]

\* pd.read_csv(path, index_col=0, header=0): the first line labels the
\* columns, the first field of every other line labels its row
ReadCsv(file) ==
    Frame([r \in 1..Len(file.rows) |-> file.rows[r].name],
          file.header,
          [r \in 1..Len(file.rows) |-> file.rows[r].cells])

Transpose(f) ==
    Frame(f.columns, f.index,
          [r \in 1..Len(f.columns) |-> [c \in 1..Len(f.index) |-> f.values[c][r]]])

\* frame[labels]: the columns with these labels, in the order of the labels
ColumnPositions(f, label) == {c \in 1..Len(f.columns) : f.columns[c] = label}

Contains(f, label) == ColumnPositions(f, label) # {}

SelectColumns(f, labels) ==
    LET pos == [k \in 1..Len(labels) |->
                   CHOOSE c \in ColumnPositions(f, labels[k]) : TRUE]
    IN Frame(f.index, labels,
             [r \in 1..Len(f.index) |-> [k \in 1..Len(labels) |-> f.values[r][pos[k]]]])

Column(f, c) == [r \in 1..Len(f.index) |-> f.values[r][c]]

RECURSIVE Sum(_)
Sum(s) == IF s = <<>> THEN 0 ELSE Head(s) + Sum(Tail(s))

Times(x, y) == [k \in 1..Len(x) |-> x[k] * y[k]]

\* Pearson correlation of two columns, in tenths.  A column without
\* variance gives NaN.  The magnitude is rounded up to the next tenth, but
\* is One only when the two columns are exactly linearly related: the
\* abstraction keeps the order of the values and both comparisons the
\* notebook makes (!= 1.0 and abs() > 0.5).  In floating point a column
\* correlated with itself, or with an identical column, gives exactly 1.0;
\* RowVals holds no other exactly linear pair.
Pearson(x, y) ==
    LET n   == Len(x)
        cov == n * Sum(Times(x, y)) - Sum(x) * Sum(y)
        vx  == n * Sum(Times(x, x)) - Sum(x) * Sum(x)
        vy  == n * Sum(Times(y, y)) - Sum(y) * Sum(y)
        up  == CHOOSE k \in 0..One :
                   /\ k * k * vx * vy >= One * One * cov * cov
                   /\ \A j \in 0..(k - 1) : j * j * vx * vy < One * One * cov * cov
        mag == IF up = One /\ cov * cov < vx * vy THEN One - 1 ELSE up
    IN IF vx = 0 \/ vy = 0 THEN NaN
       ELSE IF cov < 0 THEN 0 - mag ELSE mag

\* frame.corr(): Pearson correlation of every pair of columns
Corr(f) ==
    Frame(f.columns, f.columns,
          [r \in 1..Len(f.columns) |->
              [c \in 1..Len(f.columns) |-> Pearson(Column(f, r), Column(f, c))]])

\* ------------------------------------------------------------ HDF store
CorrelationsKey == "correlations"

\* a fixed-format node: both axes and the block of values, items first
EncodeFrame(f) ==
    [axis0 |-> f.columns, axis1 |-> f.index,
     block0_values |-> [c \in 1..Len(f.columns) |->
                           [r \in 1..Len(f.index) |-> f.values[r][c]]]]

DecodeFrame(node) ==
    Frame(node.axis1, node.axis0,
          [r \in 1..Len(node.axis1) |->
              [c \in 1..Len(node.axis0) |-> node.block0_values[c][r]]])

\* variant: a node already stored under the key is kept
ToHdf_KeepExisting(store, key, f) ==
    IF Exists(store) /\ key \in DOMAIN store[1]
    THEN store
    ELSE LET old == IF Exists(store) THEN store[1] ELSE <<>>
             keys == (IF Exists(store) THEN DOMAIN store[1] ELSE {}) \cup {key}
         IN <<[k \in keys |-> IF k = key
                              THEN [axis0 |-> f.columns, axis1 |-> f.index,
                                    block0_values |->
                                        [c \in 1..Len(f.columns) |->
                                            [r \in 1..Len(f.index) |-> f.values[r][c]]]]
                              ELSE old[k]]>>

\* frame.to_hdf(path, key): opens the store for appending (creating it when
\* absent) and replaces the node under key
ToHdf(store, key, f) ==
    LET old == IF Exists(store) THEN store[1] ELSE <<>>
        keys == (IF Exists(store) THEN DOMAIN store[1] ELSE {}) \cup {key}
    IN Present([k \in keys |-> IF k = key THEN EncodeFrame(f) ELSE old[k]])

\* pd.read_hdf(path, key) raises when the file or the key is missing
CanReadHdf(store, key) == Exists(store) /\ key \in DOMAIN store[1]

ReadHdf(store, key) == DecodeFrame(store[1][key])

\* ------------------------------------------------------------- series
Entry(i, j, v) == [i |-> i, j |-> j, v |-> v]

\* variant: the redundant pairs dropped (the commented-out lines of the cell):
\* only the cells on and below the diagonal are listed
UnstackWithoutRedundantPairs(f) ==
    LET nr == Len(f.index)
        nc == Len(f.columns)
        all == [k \in 1..(nr * nc) |->
                   LET c == ((k - 1) \div nr) + 1
                       r == ((k - 1) % nr) + 1
                   IN [i |-> f.columns[c], j |-> f.index[r], v |-> f.values[r][c],
                       below |-> r >= c]]
        IsBelow(e) == e.below
        kept == SelectSeq(all, IsBelow)
    IN [k \in 1..Len(kept) |-> [i |-> kept[k].i, j |-> kept[k].j, v |-> kept[k].v]]

\* frame.unstack(): one entry per cell, column by column; level 0 of the
\* index is the column label, level 1 the row label
Unstack(f) ==
    LET nr == Len(f.index)
        nc == Len(f.columns)
    IN [k \in 1..(nr * nc) |->
           LET c == ((k - 1) \div nr) + 1
               r == ((k - 1) % nr) + 1
           IN Entry(f.columns[c], f.index[r], f.values[r][c])]

NotOne(e) == FloatNe(e.v, One)
AboveThreshold(e) == FloatGt(FloatAbs(e.v), Threshold)

\* variant: the filter on 1.0 left out
DropOnes_KeepAll(s) == s

\* series[series != 1.0]
DropOnes(s) == SelectSeq(s, NotOne)

\* variant: the threshold applied to the signed value
IsLargeSigned(e) == FloatGt(e.v, Threshold)

KeepLarge_Signed(s) == SelectSeq(s, IsLargeSigned)

\* series[series.abs() > 0.5]
KeepLarge(s) == SelectSeq(s, AboveThreshold)

\* series.abs()
AbsSeries(s) == [k \in 1..Len(s) |-> Entry(s[k].i, s[k].j, FloatAbs(s[k].v))]

\* a before b in a descending sort with NaN last
MayPrecede(a, b) == b = NaN \/ (a # NaN /\ a >= b)

\* variant: sort_values() with its default, ascending order
SortValuesAscending(s) ==
    {[k \in 1..Len(s) |-> s[p[k]]] :
        p \in {q \in Permutations(1..Len(s)) :
                 \A k \in 1..(Len(s) - 1) : MayPrecede(s[q[k + 1]].v, s[q[k]].v)}}

\* series.sort_values(ascending=False): the default sort is not stable, so
\* every arrangement of the entries that is descending can be the result
SortValuesDescending(s) ==
    {[k \in 1..Len(s) |-> s[p[k]]] :
        p \in {q \in Permutations(1..Len(s)) :
                 \A k \in 1..(Len(s) - 1) : MayPrecede(s[q[k]].v, s[q[k + 1]].v)}}

\* series[labels] on a two-level index: the entries whose level-0 label is
\* one of the labels, in the order of the series
SelectLevel0(s, labels) ==
    LET IsListed(e) == \E k \in 1..Len(labels) : labels[k] = e.i
    IN SelectSeq(s, IsListed)

\* ------------------------------------------------------------- inputs
GeneNames == << <<"A">>, <<"B">>, <<"C">> >>
CellLines == << <<"x">>, <<"y">>, <<"z">> >>

\* the scores of one gene over the cell lines
RowVals == {<<0, 1, 2>>, <<1, 0, 0>>, <<1, 1, 1>>}

CsvInputs ==
    {[header |-> CellLines,
      rows |-> [g \in 1..Len(GeneNames) |-> [name |-> GeneNames[g], cells |-> c[g]]]] :
        c \in [1..Len(GeneNames) -> RowVals]}

\* a symmetric matrix over GeneNames with 1.0 on the diagonal
SymFrame(ab, ac, bc) ==
    Frame(GeneNames, GeneNames,
          << <<One, ab, ac>>, <<ab, One, bc>>, <<ac, bc, One>> >>)

ExampleCorr == SymFrame(6, 2, -7)

\* results of earlier sessions that may lie on disk when the first run starts
PriorCaches ==
    {Absent} \cup {ToHdf(Absent, CorrelationsKey, m) :
                      m \in {ExampleCorr, SymFrame(One, 0 - One, Threshold)}}

PriorGenesFiles == {Absent, Present(<<"A", "\n", "B", "\n">>)}

MetabolicGenesFiles ==
    {Absent,
     Present(<<>>),
     Present(<<"A", "\n", "b", "\n">>),
     Present(<<" ", "c", " ", "\n", "D", "\n">>),
     Present(<<"B", "\n", "B">>)}

\* ------------------------------------------------------------- the run
Init ==
    /\ pc = "load"
    /\ run = 1
    /\ csv \in {Absent} \cup {Present(f) : f \in CsvInputs}
    /\ h5 \in PriorCaches
    /\ prior_genes_txt \in PriorGenesFiles
    /\ metabolic_genes_txt \in MetabolicGenesFiles
    /\ written = Unbound
    /\ data = Unbound
    /\ recalculate = Unbound
    /\ corr = Unbound
    /\ corr_list = Unbound
    /\ large_corr = Unbound
    /\ sort_corrs = Unbound
    /\ prior_genes = Unbound
    /\ metab_genes = Unbound
    /\ prior_corrs = Unbound
    /\ metab_data = Unbound
    /\ metab_corr = Unbound
    /\ mcorr_list = Unbound
    /\ mlarge_corr = Unbound
    /\ msort_corrs = Unbound

\* data = pd.read_csv(...); data = data.transpose()
Loader ==
    /\ pc = "load"
    /\ IF Exists(csv)
       THEN /\ data' = Bound(Transpose(ReadCsv(csv[1])))
            /\ pc' = "cache"
       ELSE /\ pc' = "aborted"
            /\ UNCHANGED data
    /\ UNCHANGED <<run, files, written, recalculate, corr, corr_list, large_corr,
                   sort_corrs, prior_genes, metab_genes, prior_corrs, metab_data,
                   metab_corr, mcorr_list, mlarge_corr, msort_corrs>>

\* variant: the cache is read whenever it exists and computed otherwise
CorrelationCache_ByExistence ==
    /\ pc = "cache"
    /\ \E flag \in BOOLEAN :
          /\ recalculate' = Bound(flag)
          /\ IF ~CanReadHdf(h5, CorrelationsKey)
             THEN /\ corr' = Bound(Corr(data[1]))
                  /\ h5' = ToHdf(h5, CorrelationsKey, Corr(data[1]))
                  /\ written' = Bound(Corr(data[1]))
                  /\ pc' = "filter"
             ELSE /\ corr' = Bound(ReadHdf(h5, CorrelationsKey))
                  /\ pc' = "filter"
                  /\ UNCHANGED <<h5, written>>
    /\ UNCHANGED <<run, csv, prior_genes_txt, metabolic_genes_txt, data, corr_list,
                   large_corr, sort_corrs, prior_genes, metab_genes, prior_corrs,
                   metab_data, metab_corr, mcorr_list, mlarge_corr, msort_corrs>>

\* variant: a missing cache falls back to computing the correlations
CorrelationCache_Fallback ==
    /\ pc = "cache"
    /\ \E flag \in BOOLEAN :
          /\ recalculate' = Bound(flag)
          /\ IF flag \/ ~CanReadHdf(h5, CorrelationsKey)
             THEN /\ corr' = Bound(Corr(data[1]))
                  /\ h5' = ToHdf(h5, CorrelationsKey, Corr(data[1]))
                  /\ written' = Bound(Corr(data[1]))
                  /\ pc' = "filter"
             ELSE /\ corr' = Bound(ReadHdf(h5, CorrelationsKey))
                  /\ pc' = "filter"
                  /\ UNCHANGED <<h5, written>>
    /\ UNCHANGED <<run, csv, prior_genes_txt, metabolic_genes_txt, data, corr_list,
                   large_corr, sort_corrs, prior_genes, metab_genes, prior_corrs,
                   metab_data, metab_corr, mcorr_list, mlarge_corr, msort_corrs>>

\* variant: a cache that differs from the correlations of data is recomputed
CorrelationCache_Refresh ==
    /\ pc = "cache"
    /\ \E flag \in BOOLEAN :
          /\ recalculate' = Bound(flag)
          /\ IF flag \/ (CanReadHdf(h5, CorrelationsKey)
                         /\ ReadHdf(h5, CorrelationsKey) # Corr(data[1]))
             THEN /\ corr' = Bound(Corr(data[1]))
                  /\ h5' = ToHdf(h5, CorrelationsKey, Corr(data[1]))
                  /\ written' = Bound(Corr(data[1]))
                  /\ pc' = "filter"
             ELSE /\ IF CanReadHdf(h5, CorrelationsKey)
                     THEN /\ corr' = Bound(ReadHdf(h5, CorrelationsKey))
                          /\ pc' = "filter"
                     ELSE /\ pc' = "aborted"
                          /\ UNCHANGED corr
                  /\ UNCHANGED <<h5, written>>
    /\ UNCHANGED <<run, csv, prior_genes_txt, metabolic_genes_txt, data, corr_list,
                   large_corr, sort_corrs, prior_genes, metab_genes, prior_corrs,
                   metab_data, metab_corr, mcorr_list, mlarge_corr, msort_corrs>>

\* the cell of the recalculate flag; the flag is a literal of the cell, which
\* the analyst sets before running it
CorrelationCache ==
    /\ pc = "cache"
    /\ \E flag \in BOOLEAN :
          /\ recalculate' = Bound(flag)
          /\ IF flag
             THEN /\ corr' = Bound(Corr(data[1]))
                  /\ h5' = ToHdf(h5, CorrelationsKey, Corr(data[1]))
                  /\ written' = Bound(Corr(data[1]))
                  /\ pc' = "filter"
             ELSE /\ IF CanReadHdf(h5, CorrelationsKey)
                     THEN /\ corr' = Bound(ReadHdf(h5, CorrelationsKey))
                          /\ pc' = "filter"
                     ELSE /\ pc' = "aborted"
                          /\ UNCHANGED corr
                  /\ UNCHANGED <<h5, written>>
    /\ UNCHANGED <<run, csv, prior_genes_txt, metabolic_genes_txt, data, corr_list,
                   large_corr, sort_corrs, prior_genes, metab_genes, prior_corrs,
                   metab_data, metab_corr, mcorr_list, mlarge_corr, msort_corrs>>

\* corr_list / large_corr / sort_corrs
PairFilter ==
    /\ pc = "filter"
    /\ corr_list' = Bound(Unstack(corr[1]))
    /\ large_corr' = Bound(KeepLarge(DropOnes(Unstack(corr[1]))))
    /\ \E sorted \in SortValuesDescending(AbsSeries(KeepLarge(DropOnes(Unstack(corr[1]))))) :
          sort_corrs' = Bound(sorted)
    /\ pc' = "genes"
    /\ UNCHANGED <<run, files, written, data, recalculate, corr, prior_genes,
                   metab_genes, prior_corrs, metab_data, metab_corr, mcorr_list,
                   mlarge_corr, msort_corrs>>

\* [line.strip() for line in f.readlines()]
StripAll(lines) == [k \in 1..Len(lines) |-> Strip(lines[k])]

\* variant: the loop without the test "gene_name in data"
RECURSIVE MetabLoop_NoMembershipTest(_, _, _)
MetabLoop_NoMembershipTest(lines, frame, acc) ==
    IF lines = <<>> THEN acc
    ELSE MetabLoop_NoMembershipTest(Tail(lines), frame,
                                    Append(acc, Upper(Strip(Head(lines)))))

\* the loop over the lines of metabolic_genes.txt
RECURSIVE MetabLoop(_, _, _)
MetabLoop(lines, frame, acc) ==
    IF lines = <<>> THEN acc
    ELSE LET gene_name == Upper(Strip(Head(lines)))
         IN MetabLoop(Tail(lines), frame,
                      IF Contains(frame, gene_name) THEN Append(acc, gene_name) ELSE acc)

\* prior_genes and metab_genes; metab_genes = [] precedes the second open
GeneLists ==
    /\ pc = "genes"
    /\ IF ~Exists(prior_genes_txt)
       THEN /\ pc' = "aborted"
            /\ UNCHANGED <<prior_genes, metab_genes>>
       ELSE /\ prior_genes' = Bound(StripAll(ReadLines(prior_genes_txt[1])))
            /\ IF ~Exists(metabolic_genes_txt)
               THEN /\ metab_genes' = Bound(<<>>)
                    /\ pc' = "aborted"
               ELSE /\ metab_genes' =
                          Bound(MetabLoop(ReadLines(metabolic_genes_txt[1]), data[1], <<>>))
                    /\ pc' = "prior_corrs"
    /\ UNCHANGED <<run, files, written, data, recalculate, corr, corr_list, large_corr,
                   sort_corrs, prior_corrs, metab_data, metab_corr, mcorr_list,
                   mlarge_corr, msort_corrs>>

\* prior_corrs = large_corr[metab_genes]
PriorCorrs ==
    /\ pc = "prior_corrs"
    /\ prior_corrs' = Bound(SelectLevel0(large_corr[1], metab_genes[1]))
    /\ pc' = "metab_data"
    /\ UNCHANGED <<run, files, written, data, recalculate, corr, corr_list, large_corr,
                   sort_corrs, prior_genes, metab_genes, metab_data, metab_corr,
                   mcorr_list, mlarge_corr, msort_corrs>>

\* metab_data = data[metab_genes]
MetabData ==
    /\ pc = "metab_data"
    /\ metab_data' = Bound(SelectColumns(data[1], metab_genes[1]))
    /\ pc' = "metab_corr"
    /\ UNCHANGED <<run, files, written, data, recalculate, corr, corr_list, large_corr,
                   sort_corrs, prior_genes, metab_genes, prior_corrs, metab_corr,
                   mcorr_list, mlarge_corr, msort_corrs>>

\* metab_corr = metab_data.corr()
MetabCorr ==
    /\ pc = "metab_corr"
    /\ metab_corr' = Bound(Corr(metab_data[1]))
    /\ pc' = "mfilter"
    /\ UNCHANGED <<run, files, written, data, recalculate, corr, corr_list, large_corr,
                   sort_corrs, prior_genes, metab_genes, prior_corrs, metab_data,
                   mcorr_list, mlarge_corr, msort_corrs>>

\* mcorr_list / mlarge_corr / msort_corrs
MetabPairFilter ==
    /\ pc = "mfilter"
    /\ mcorr_list' = Bound(Unstack(metab_corr[1]))
    /\ mlarge_corr' = Bound(KeepLarge(DropOnes(Unstack(metab_corr[1]))))
    /\ \E sorted \in SortValuesDescending(
                        AbsSeries(KeepLarge(DropOnes(Unstack(metab_corr[1]))))) :
          msort_corrs' = Bound(sorted)
    /\ pc' = "done"
    /\ UNCHANGED <<run, files, written, data, recalculate, corr, corr_list, large_corr,
                   sort_corrs, prior_genes, metab_genes, prior_corrs, metab_data,
                   metab_corr>>

\* the analyst restarts the kernel and runs the notebook again, possibly on
\* another input table; the files written so far stay
Restart ==
    /\ pc \in {"done", "aborted"}
    /\ run < MaxRuns
    /\ run' = run + 1
    /\ pc' = "load"
    /\ csv' \in {Absent} \cup {Present(f) : f \in CsvInputs}
    /\ data' = Unbound
    /\ recalculate' = Unbound
    /\ corr' = Unbound
    /\ corr_list' = Unbound
    /\ large_corr' = Unbound
    /\ sort_corrs' = Unbound
    /\ prior_genes' = Unbound
    /\ metab_genes' = Unbound
    /\ prior_corrs' = Unbound
    /\ metab_data' = Unbound
    /\ metab_corr' = Unbound
    /\ mcorr_list' = Unbound
    /\ mlarge_corr' = Unbound
    /\ msort_corrs' = Unbound
    /\ UNCHANGED <<h5, prior_genes_txt, metabolic_genes_txt, written>>

Next ==
    \/ Loader
    \/ CorrelationCache
    \/ PairFilter
    \/ GeneLists
    \/ PriorCorrs
    \/ MetabData
    \/ MetabCorr
    \/ MetabPairFilter
    \/ Restart

Spec == Init /\ [][Next]_vars

\* ------------------------------------------- the pair filter on its own
\* correlations a symmetric matrix may hold off its diagonal
CorrVals == {0 - One, -7, 0 - Threshold, 2, Threshold, 6, One, NaN}

FilterInputs == {SymFrame(ab, ac, bc) : ab \in CorrVals, ac \in CorrVals, bc \in CorrVals}

FilterCsv ==
    [header |-> CellLines,
     rows |-> << [name |-> GeneNames[1], cells |-> <<0, 1, 2>>],
                 [name |-> GeneNames[2], cells |-> <<1, 0, 0>>],
                 [name |-> GeneNames[3], cells |-> <<1, 1, 1>>] >>]

\* the kernel in front of the pair filter cell, the matrix having been read
\* from a cache file that holds any symmetric matrix
FilterInit ==
    /\ pc = "filter"
    /\ run = 1
    /\ csv = Present(FilterCsv)
    /\ \E m \in FilterInputs :
          /\ h5 = ToHdf(Absent, CorrelationsKey, m)
          /\ corr = Bound(m)
    /\ prior_genes_txt = Absent
    /\ metabolic_genes_txt = Absent
    /\ written = Unbound
    /\ data = Bound(Transpose(ReadCsv(FilterCsv)))
    /\ recalculate = Bound(FALSE)
    /\ corr_list = Unbound
    /\ large_corr = Unbound
    /\ sort_corrs = Unbound
    /\ prior_genes = Unbound
    /\ metab_genes = Unbound
    /\ prior_corrs = Unbound
    /\ metab_data = Unbound
    /\ metab_corr = Unbound
    /\ mcorr_list = Unbound
    /\ mlarge_corr = Unbound
    /\ msort_corrs = Unbound

FilterNext == PairFilter

FilterSpec == FilterInit /\ [][FilterNext]_vars

\* ============================================================== claims
InSeries(s, e) == \E k \in 1..Len(s) : s[k] = e

Strong(e) == FloatGt(FloatAbs(e.v), Threshold)

NoWeakNoSelf(s) ==
    \A k \in 1..Len(s) : s[k].v # NaN /\ s[k].v > Threshold /\ s[k].i # s[k].j

\* C1: neither pair filter (sort_corrs, msort_corrs) ever returns an entry
\* whose absolute correlation is <= 0.5 or whose two labels are identical.
C1_NoWeakNoSelfPairs ==
    /\ IsBound(sort_corrs) => NoWeakNoSelf(sort_corrs[1])
    /\ IsBound(msort_corrs) => NoWeakNoSelf(msort_corrs[1])

\* both filters have run, each dropped entries and each returned some
C1_Witness ==
    /\ IsBound(sort_corrs) /\ IsBound(msort_corrs)
    /\ 0 < Len(sort_corrs[1]) /\ Len(sort_corrs[1]) < Len(corr_list[1])
    /\ 0 < Len(msort_corrs[1]) /\ Len(msort_corrs[1]) < Len(mcorr_list[1])

\* C2: the output of the pair filter is exactly the entries of the matrix
\* between distinct labels whose absolute correlation is > 0.5, a
\* correlation of exactly 1.0 between distinct labels included.
C2_EveryStrongPairReturned ==
    IsBound(sort_corrs) =>
        /\ \A k \in 1..Len(corr_list[1]) :
              LET e == corr_list[1][k]
              IN (e.i # e.j /\ Strong(e)) =>
                     InSeries(sort_corrs[1], Entry(e.i, e.j, FloatAbs(e.v)))
        /\ \A k \in 1..Len(sort_corrs[1]) :
              \E n \in 1..Len(corr_list[1]) :
                 LET e == corr_list[1][n]
                 IN /\ e.i # e.j /\ Strong(e)
                    /\ sort_corrs[1][k] = Entry(e.i, e.j, FloatAbs(e.v))

\* C3: sort_corrs carries the absolute value of every retained correlation
\* and no other entry, and is descending: of two consecutive entries the
\* earlier has the larger or equal absolute correlation.
C3_AbsoluteDescending ==
    IsBound(sort_corrs) =>
        LET s == sort_corrs[1]
            l == large_corr[1]
        IN /\ Len(s) = Len(l)
           /\ \A k \in 1..Len(l) : InSeries(s, Entry(l[k].i, l[k].j, FloatAbs(l[k].v)))
           /\ \A k \in 1..Len(s) : s[k].v >= 0
           /\ \A k \in 1..(Len(s) - 1) : s[k].v >= s[k + 1].v

\* a negative correlation was retained and the output holds two values
C3_Witness ==
    /\ IsBound(sort_corrs)
    /\ \E k \in 1..Len(large_corr[1]) : large_corr[1][k].v < 0
    /\ \E k \in 1..(Len(sort_corrs[1]) - 1) : sort_corrs[1][k].v > sort_corrs[1][k + 1].v

\* C4: on a symmetric matrix the output holds (j, i) with the same absolute
\* correlation whenever it holds (i, j), and every retained unordered pair
\* appears exactly twice.
C4_BothOrders ==
    IsBound(sort_corrs) =>
        LET s == sort_corrs[1]
        IN \A k \in 1..Len(s) :
              /\ InSeries(s, Entry(s[k].j, s[k].i, s[k].v))
              /\ Cardinality({n \in 1..Len(s) : {s[n].i, s[n].j} = {s[k].i, s[k].j}}) = 2

\* two unordered pairs were retained
C4_Witness == IsBound(sort_corrs) /\ Len(sort_corrs[1]) >= 4

\* C10: on the matrix A-B = 0.6, A-C = 0.2, B-C = -0.7 the output holds
\* (B, C, 0.7) and (A, B, 0.6), every B-C entry before every A-B entry, no
\* entry for A-C in either order and no self-pair.
C10_Example ==
    (corr = Bound(ExampleCorr) /\ IsBound(sort_corrs)) =>
        LET s == sort_corrs[1]
            A == GeneNames[1]
            B == GeneNames[2]
            C == GeneNames[3]
        IN /\ InSeries(s, Entry(B, C, 7))
           /\ InSeries(s, Entry(A, B, 6))
           /\ \A p \in 1..Len(s), q \in 1..Len(s) :
                 ({s[p].i, s[p].j} = {B, C} /\ {s[q].i, s[q].j} = {A, B}) => p < q
           /\ \A k \in 1..Len(s) : s[k].i # s[k].j /\ {s[k].i, s[k].j} # {A, C}

\* the filter has run on the example matrix
C10_Witness == corr = Bound(ExampleCorr) /\ IsBound(sort_corrs)

\* the lines of metabolic_genes.txt without their surrounding white space
MetabolicLines == StripAll(ReadLines(metabolic_genes_txt[1]))

InList(lines, g) == \E k \in 1..Len(lines) : lines[k] = g

CacheReadable == CanReadHdf(h5, CorrelationsKey)

\* C6 as stated: the cache step loads the matrix when a prior result is on
\* disk and computes it otherwise, so that it always ends with a matrix.
C6_LoadsWhenCacheExists ==
    [][pc = "cache" =>
          /\ CacheReadable => (corr' = Bound(ReadHdf(h5, CorrelationsKey)) /\ h5' = h5)
          /\ ~CacheReadable => corr' = Bound(Corr(data[1]))
          /\ IsBound(corr') /\ pc' = "filter"]_vars

\* C6 amended: the recalculate flag decides.  With the flag true the step
\* computes the matrix from the transposed table, whether or not a prior
\* result is on disk; with the flag false it loads the prior result.  The
\* step ends with a matrix for the pair filter exactly when the flag is
\* true or a prior result is on disk.
C6_FlagDecides ==
    [][pc = "cache" =>
          /\ recalculate' = Bound(TRUE) => corr' = Bound(Corr(data[1]))
          /\ (recalculate' = Bound(FALSE) /\ CacheReadable) =>
                 corr' = Bound(ReadHdf(h5, CorrelationsKey))
          /\ (recalculate' = Bound(TRUE) \/ CacheReadable)
                 <=> (IsBound(corr') /\ pc' = "filter")]_vars

\* the step loaded a prior result that is not the correlation of data
C6_Witness ==
    /\ pc = "filter"
    /\ recalculate = Bound(FALSE)
    /\ IsBound(corr)
    /\ corr # Bound(Corr(data[1]))

\* C7: a failure aborts the run where it happens.  A missing input table,
\* a missing cache with recalculate false, or a missing gene list file ends
\* the run in that cell; the correlations are not computed instead, nothing
\* is written, and no later cell assigns anything: the only step after an
\* abort is a new run in a fresh kernel.
C7_AbortEndsRun ==
    [][/\ (pc = "load" /\ ~Exists(csv)) => (pc' = "aborted" /\ data' = Unbound)
       /\ (pc = "cache" /\ recalculate' = Bound(FALSE) /\ ~CacheReadable) =>
              (pc' = "aborted" /\ corr' = Unbound /\ h5' = h5 /\ written' = written)
       /\ (pc = "genes" /\ (~Exists(prior_genes_txt) \/ ~Exists(metabolic_genes_txt))) =>
              (pc' = "aborted" /\ prior_corrs' = Unbound)
       /\ (pc' = "aborted" /\ ~IsBound(data')) => ~IsBound(corr')
       /\ (pc' = "aborted" /\ ~IsBound(corr')) => (~IsBound(corr_list') /\ ~IsBound(sort_corrs'))
       /\ pc' = "aborted" =>
              (/\ ~IsBound(prior_corrs') /\ ~IsBound(metab_data')
               /\ ~IsBound(metab_corr') /\ ~IsBound(msort_corrs'))
       /\ pc = "aborted" => (pc' = "load" /\ run' = run + 1 /\ ~IsBound(data'))]_vars

\* a run stopped in the cache cell: the table is loaded, the cache is absent
C7_Witness ==
    /\ pc = "aborted"
    /\ IsBound(data)
    /\ recalculate = Bound(FALSE)
    /\ ~IsBound(corr)
    /\ ~Exists(h5)

\* C8: the cache file changes only in the cache cell of a run whose
\* recalculate flag is true.  A run with the flag false leaves the file as it
\* is and takes the content of the file as corr.
C8_ManualInvalidationOnly ==
    [][/\ h5' # h5 => (pc = "cache" /\ recalculate' = Bound(TRUE))
       /\ (recalculate = Bound(FALSE) \/ recalculate' = Bound(FALSE)) => h5' = h5
       /\ (pc = "cache" /\ recalculate' = Bound(FALSE) /\ pc' # "aborted") =>
              corr' = Bound(ReadHdf(h5', CorrelationsKey))]_vars

\* a later run took over the cache an earlier run wrote, which is not the
\* correlation of the table this run loaded
C8_Witness ==
    /\ run > 1
    /\ recalculate = Bound(FALSE)
    /\ IsBound(corr)
    /\ corr = written
    /\ corr # Bound(Corr(data[1]))

\* C9: a run with recalculate false that follows a run which wrote the
\* matrix under the key reads back the matrix that was written: the same
\* labels and the same values.
C9_RoundTrip ==
    (recalculate = Bound(FALSE) /\ IsBound(corr) /\ IsBound(written)) =>
        /\ corr[1].index = written[1].index
        /\ corr[1].columns = written[1].columns
        /\ corr[1].values = written[1].values

\* the matrix read back holds a NaN, a negative value and a 1.0
C9_Witness ==
    /\ recalculate = Bound(FALSE)
    /\ IsBound(corr)
    /\ IsBound(written)
    /\ pc = "done"
    /\ \E r \in 1..Len(corr[1].index) : corr[1].values[r][r] = NaN
    /\ \E r \in 1..Len(corr[1].index), c \in 1..Len(corr[1].columns) :
          corr[1].values[r][c] < 0

====
